---------------------------- MODULE Spec2Model ----------------------------
(***************************************************************************)
(* Model of src/main.py: the upload callback of the ticket dashboard       *)
(* (update_dashboard), the ingestion step (parse_contents) and the two     *)
(* aggregation operations (atualizar_graficos, criar_tabela_followup).     *)
(*                                                                         *)
(* Representation.  A CSV cell of a label column is a string, "" being an  *)
(* empty cell; a TAGS cell is a sequence of one-character strings; a cell  *)
(* of a timestamp column is a record: [text |-> ""] (empty),               *)
(* [text |-> "bad"] (text that is no date) or [text |-> "date", d, h]      *)
(* (the text "d/.. h:00").  In a DataFrame a missing label is NaN, a       *)
(* missing tag field NaNTags, a parsed timestamp [ts |-> hours] and a      *)
(* missing one NaT.  A pandas exception is a result record [ok |-> FALSE,  *)
(* exc |-> name].                                                          *)
(***************************************************************************)
EXTENDS Integers, Sequences, FiniteSets, TLC

VARIABLES
    outputs,    \* the eight Output properties of the layout (7 views, message)
    ret,        \* the list update_dashboard returned for the last upload
    calls,      \* aggregation operations invoked by the last callback run
    upload,     \* what the last uploaded payload was (its defects)
    lastGood,   \* the views returned by the most recent successful upload
    df,         \* the DataFrame handed to the aggregation operations
    df0,        \* that DataFrame as parse_contents returned it
    graphs,     \* result of atualizar_graficos(df), or NotRun
    followup    \* result of criar_tabela_followup(df), or NotRun

vars == <<outputs, ret, calls, upload, lastGood, df, df0, graphs, followup>>

dashVars == <<outputs, ret, calls, upload, lastGood>>
aggVars == <<df, df0, graphs, followup>>

----------------------------------------------------------------------------
(* Bounds of the model *)

\* rows of an uploaded file in the callback specification
MaxUploadRows == 2
\* rows of a table handed to the aggregation operations
MaxRows == 3
\* days on which a ticket may be dated: 0..MaxDay
MaxDay == 1
\* distinct labels of the wide tables (more than TopN are needed)
MaxLabels == 11

(* Program constants *)

\* .head(10) of the tags and agents rankings
TopN == 10
\* .dt.date and .dt.days cut a timestamp, resp. a difference, to whole days
HoursPerDay == 24

----------------------------------------------------------------------------
(* Columns and cells *)

LabelCols == {"NUMERO", "NOME", "STATUS", "DEPARTAMENTO", "ATENDENTE"}
DateCols == {"DATA", "DATAFINALIZACAO", "DATAULTIMAMENSAGEM"}
AllCols == LabelCols \cup DateCols \cup {"TAGS"}

NaN == "NaN"
NaNTags == <<"NaN">>
NaT == [nat |-> TRUE]
NaNObj == [nan |-> TRUE]

EmptyText == [text |-> ""]
BadText == [text |-> "bad"]
DateText(d, h) == [text |-> "date", d |-> d, h |-> h]

Ts(n) == [ts |-> n]
IsTs(c) == DOMAIN c = {"ts"}
IsText(c) == "text" \in DOMAIN c

\* pandas reads an empty cell as a missing value
ReadLabel(c) == IF c = "" THEN NaN ELSE c
ReadTags(c) == IF c = <<>> THEN NaNTags ELSE c

\* the timestamp a date text denotes, in hours
ParseDate(c) == Ts(c.d * HoursPerDay + c.h)
\* strftime('%d/%m/%Y %H:%M') of a timestamp
Strftime(c) == DateText(c.ts \div HoursPerDay, c.ts % HoursPerDay)

Exc(name) == [ok |-> FALSE, exc |-> name]


----------------------------------------------------------------------------
(* Ingestion: parse_contents *)

NoDf == [cols |-> {}, rows |-> <<>>, none |-> TRUE]
NoMessage == <<>>
ErrorMessage(e) == <<"Erro ao processar arquivo: ", e>>
SuccessMessage(filename) == <<"Arquivo ", filename, " processado com sucesso!">>

\* parse_dates: a column is converted when every non-empty cell of it is a
\* date; otherwise pandas leaves the column as it read it (text)
ReadDate(rows, c, i) ==
    IF \E j \in 1..Len(rows) : rows[j][c] = BadText
    THEN IF rows[i][c] = EmptyText THEN NaNObj ELSE rows[i][c]
    ELSE IF rows[i][c] = EmptyText THEN NaT ELSE ParseDate(rows[i][c])

ReadCell(rows, c, i) ==
    IF c \in DateCols THEN ReadDate(rows, c, i)
    ELSE IF c = "TAGS" THEN ReadTags(rows[i][c])
    ELSE ReadLabel(rows[i][c])

\* pd.read_csv(..., parse_dates=[...], dayfirst=True)
read_csv(csv) ==
    IF csv.header = {} THEN Exc("EmptyDataError")
    ELSE IF ~(DateCols \subseteq csv.header) THEN Exc("ValueError")
    ELSE [ok |-> TRUE,
          df |-> [cols |-> csv.header,
                  rows |-> [i \in 1..Len(csv.rows) |->
                              [c \in csv.header |-> ReadCell(csv.rows, c, i)]]]]

\* contents is "<content type>,<base64 of the file>"
decode(contents) ==
    IF contents.parts # 2 THEN Exc("ValueError")
    ELSE IF ~contents.b64 THEN Exc("binascii.Error")
    ELSE IF ~contents.utf8 THEN Exc("UnicodeDecodeError")
    ELSE read_csv(contents.csv)

parse_contents(contents) ==
    LET r == decode(contents)
    IN  IF r.ok THEN [df |-> r.df, error_message |-> NoMessage]
        ELSE [df |-> NoDf, error_message |-> ErrorMessage(r.exc)]

----------------------------------------------------------------------------
(* pandas helpers used by the aggregation operations *)

Min(a, b) == IF a <= b THEN a ELSE b

Column(d, c) == [i \in 1..Len(d.rows) |-> d.rows[i][c]]

SetColumn(d, c, col) ==
    [d EXCEPT !.cols = @ \cup {c},
              !.rows = [i \in 1..Len(d.rows) |->
                          [k \in DOMAIN d.rows[i] \cup {c} |->
                              IF k = c THEN col[i] ELSE d.rows[i][k]]]]

\* pd.to_datetime of one value
ToDatetime(c) ==
    IF IsTs(c) THEN c
    ELSE IF IsText(c) THEN ParseDate(c)
    ELSE NaT

\* pd.to_datetime of a column raises on a value that is no date
CanConvert(col) == \A i \in 1..Len(col) : col[i] # BadText

to_datetime(col) == [i \in 1..Len(col) |-> ToDatetime(col[i])]

dropna(s, nan) == SelectSeq(s, LAMBDA x : x # nan)

RECURSIVE Unique(_)
Unique(s) ==
    IF s = <<>> THEN <<>>
    ELSE LET rest == Unique(SubSeq(s, 1, Len(s) - 1))
             x == s[Len(s)]
         IN  IF \E i \in 1..Len(rest) : rest[i] = x THEN rest
             ELSE Append(rest, x)

Count(s, x) == Cardinality({i \in 1..Len(s) : s[i] = x})

\* where a pair goes in a list sorted by count descending: after every
\* entry whose count is at least its own (equal counts keep their order)
InsertDesc(sorted, p) ==
    LET k == Cardinality({i \in 1..Len(sorted) : sorted[i][2] >= p[2]})
    IN  SubSeq(sorted, 1, k) \o <<p>> \o SubSeq(sorted, k + 1, Len(sorted))

RECURSIVE SortDesc(_)
SortDesc(ps) ==
    IF ps = <<>> THEN <<>>
    ELSE InsertDesc(SortDesc(SubSeq(ps, 1, Len(ps) - 1)), ps[Len(ps)])

\* Series.value_counts(): missing values dropped, labels in first-seen
\* order, then sorted by count descending.  Equal counts keep their
\* first-seen order: pandas sorts the reversed counts ascending and
\* reverses the result, and the sort of so short a list is an insertion sort
value_counts(s, nan) ==
    LET u == Unique(dropna(s, nan))
    IN  SortDesc([i \in 1..Len(u) |-> <<u[i], Count(s, u[i])>>])

\* head with a slip: the last n entries (.tail(10))
head_last(s, n) == SubSeq(s, Len(s) - Min(n, Len(s)) + 1, Len(s))

head(s, n) == SubSeq(s, 1, Min(n, Len(s)))

\* str.split(',')
RECURSIVE split(_)
split(s) ==
    IF \A i \in 1..Len(s) : s[i] # "," THEN <<s>>
    ELSE LET k == CHOOSE i \in 1..Len(s) :
                     s[i] = "," /\ \A j \in 1..(i - 1) : s[j] # ","
         IN  <<SubSeq(s, 1, k - 1)>> \o split(SubSeq(s, k + 1, Len(s)))

\* str.strip()
RECURSIVE strip(_)
strip(s) ==
    IF s # <<>> /\ s[1] = " " THEN strip(Tail(s))
    ELSE IF s # <<>> /\ s[Len(s)] = " " THEN strip(SubSeq(s, 1, Len(s) - 1))
    ELSE s

\* [x.strip() for tags in df['TAGS'].dropna() for x in tags.split(',')]
RECURSIVE Fragments(_)
Fragments(col) ==
    IF col = <<>> THEN <<>>
    ELSE LET parts == split(col[Len(col)])
         IN  Fragments(SubSeq(col, 1, Len(col) - 1))
                 \o [i \in 1..Len(parts) |-> strip(parts[i])]

RECURSIVE SortedInts(_)
SortedInts(S) ==
    IF S = {} THEN <<>>
    ELSE LET m == CHOOSE x \in S : \A y \in S : x <= y
         IN  <<m>> \o SortedInts(S \ {m})

\* DateOf with a slip: the timestamp itself (grouping without .dt.date)
DateOf_timestamp(c) == c.ts

\* Series.dt.date
DateOf(c) == c.ts \div HoursPerDay

\* df.groupby(df['DATA'].dt.date).size(): one entry per date, dates
\* ascending, rows without a date left out
groupby_date_size(col) ==
    LET days == {DateOf(col[i]) : i \in {j \in 1..Len(col) : IsTs(col[j])}}
        keys == SortedInts(days)
    IN  [k \in 1..Len(keys) |->
            <<keys[k], Cardinality({i \in 1..Len(col) :
                          IsTs(col[i]) /\ DateOf(col[i]) = keys[k]})>>]

\* (a - b).dt.total_seconds() / 3600
HoursBetween(a, b) ==
    IF IsTs(a) /\ IsTs(b) THEN [v |-> a.ts - b.ts] ELSE NaNObj

\* (a - b).dt.days
DaysBetween(a, b) ==
    IF IsTs(a) /\ IsTs(b) THEN [v |-> (a.ts - b.ts) \div HoursPerDay]
    ELSE NaNObj

----------------------------------------------------------------------------
(* Aggregation: atualizar_graficos *)

\* lines 63-65: the three assignments to the caller's DataFrame
PrepareDates(d) ==
    LET data == to_datetime(Column(d, "DATA"))
        d1 == SetColumn(d, "DATA", data)
        d2 == SetColumn(d1, "DATAFINALIZACAO", data)
    IN  SetColumn(d2, "TEMPO_ATENDIMENTO",
            [i \in 1..Len(data) |->
                HoursBetween(d2.rows[i]["DATAFINALIZACAO"], d2.rows[i]["DATA"])])

\* the six figures, each reduced to the data it plots
Figures(d) ==
    [fig_status |-> value_counts(Column(d, "STATUS"), NaN),
     fig_dept |-> value_counts(Column(d, "DEPARTAMENTO"), NaN),
     fig_timeline |-> groupby_date_size(Column(d, "DATA")),
     fig_tags |-> head(value_counts(
                      Fragments(dropna(Column(d, "TAGS"), NaNTags)), NaNTags), TopN),
     fig_atendentes |-> head(value_counts(Column(d, "ATENDENTE"), NaN), TopN),
     kpi_fig |-> Len(d.rows)]

\* the result is [ok, df, figs] or, when a statement raises, [ok, exc, df]:
\* df is the caller's DataFrame as the call leaves it
atualizar_graficos(d) ==
    IF ~CanConvert(Column(d, "DATA"))
    THEN [ok |-> FALSE, exc |-> "ValueError", df |-> d]
    ELSE LET p == PrepareDates(d)
         IN  IF ~({"STATUS", "DEPARTAMENTO", "TAGS", "ATENDENTE"} \subseteq d.cols)
             THEN [ok |-> FALSE, exc |-> "KeyError", df |-> p]
             ELSE [ok |-> TRUE, df |-> p, figs |-> Figures(p)]

----------------------------------------------------------------------------
(* Aggregation: criar_tabela_followup *)

\* sort order of the labels (the order of their text)
Collation ==
    <<"11", "22", "Closed", "Open", "Sales", "Support", "ana", "bia", "bob", "eva">>

Rank(x) == CHOOSE i \in 1..Len(Collation) : Collation[i] = x

KeyLess(a, b) ==
    \/ Rank(a[1]) < Rank(b[1])
    \/ a[1] = b[1] /\ Rank(a[2]) < Rank(b[2])
    \/ a[1] = b[1] /\ a[2] = b[2] /\ Rank(a[3]) < Rank(b[3])

RECURSIVE SortedKeys(_)
SortedKeys(S) ==
    IF S = {} THEN <<>>
    ELSE LET m == CHOOSE x \in S : \A y \in S \ {x} : KeyLess(x, y)
         IN  <<m>> \o SortedKeys(S \ {m})

KeyOf(r) == <<r["NUMERO"], r["NOME"], r["STATUS"]>>

\* groupby drops the rows with a missing key (dropna=True)
HasKey(r) == r["NUMERO"] # NaN /\ r["NOME"] # NaN /\ r["STATUS"] # NaN

\* 'max' and 'min' skip missing values; of none they are NaT
MaxTs(S) ==
    IF S = {} THEN NaT ELSE Ts(CHOOSE x \in S : \A y \in S : y <= x)
MinTs(S) ==
    IF S = {} THEN NaT ELSE Ts(CHOOSE x \in S : \A y \in S : x <= y)

TsOf(rows, c, I) == {rows[i][c].ts : i \in {j \in I : IsTs(rows[j][c])}}

\* .dt.strftime of a column gives NaN for NaT
StrftimeCell(c) == IF IsTs(c) THEN Strftime(c) ELSE NaNObj

\* lines 152-168: one record per group, keys ascending
FollowupRows(d) ==
    LET rows == d.rows
        keyed == {i \in 1..Len(rows) : HasKey(rows[i])}
        keys == SortedKeys({KeyOf(rows[i]) : i \in keyed})
        data_mais_recente == MaxTs(TsOf(rows, "DATAULTIMAMENSAGEM", 1..Len(rows)))
        Group(k) == {i \in keyed : KeyOf(rows[i]) = k}
        Last(k) == MaxTs(TsOf(rows, "DATAULTIMAMENSAGEM", Group(k)))
        First(k) == MinTs(TsOf(rows, "DATA", Group(k)))
    IN  [g \in 1..Len(keys) |->
            [NUMERO |-> keys[g][1], NOME |-> keys[g][2], STATUS |-> keys[g][3],
             DATAULTIMAMENSAGEM |-> StrftimeCell(Last(keys[g])),
             DATA |-> StrftimeCell(First(keys[g])),
             DIAS_SEM_CONTATO |-> DaysBetween(data_mais_recente, Last(keys[g])),
             DIAS_TOTAL |-> DaysBetween(data_mais_recente, First(keys[g]))]]

\* the result is [ok, df, table, updated] or [ok, exc, df]
criar_tabela_followup(d) ==
    IF ~CanConvert(Column(d, "DATAULTIMAMENSAGEM"))
    THEN [ok |-> FALSE, exc |-> "ValueError", df |-> d]
    ELSE LET d1 == SetColumn(d, "DATAULTIMAMENSAGEM",
                       to_datetime(Column(d, "DATAULTIMAMENSAGEM")))
         IN  IF ~CanConvert(Column(d1, "DATA"))
             THEN [ok |-> FALSE, exc |-> "ValueError", df |-> d1]
             ELSE LET d2 == SetColumn(d1, "DATA", to_datetime(Column(d1, "DATA")))
                      ref == MaxTs(TsOf(d2.rows, "DATAULTIMAMENSAGEM",
                                        1..Len(d2.rows)))
                  IN  IF ~({"NUMERO", "NOME", "STATUS"} \subseteq d2.cols)
                      THEN [ok |-> FALSE, exc |-> "KeyError", df |-> d2]
                      \* line 212: NaT has no strftime
                      ELSE IF ref = NaT
                      THEN [ok |-> FALSE, exc |-> "ValueError", df |-> d2]
                      ELSE [ok |-> TRUE, df |-> d2,
                            table |-> FollowupRows(d2),
                            updated |-> Strftime(ref)]

----------------------------------------------------------------------------
(* The upload callback: update_dashboard *)

None == [none |-> TRUE]
NoUpdate == [no_update |-> TRUE]
Unset == [unset |-> TRUE]
Val(v) == [val |-> v]

Views == 1..7
MessageOut == 8

\* Failure with a slip: the views are cleared when the upload fails
Failure_clears(e, called) ==
    [out |-> [i \in 1..8 |-> IF i \in Views THEN Val(<<>>) ELSE Val(ErrorMessage(e))],
     calls |-> called, raised |-> FALSE]

Failure(e, called) ==
    [out |-> [i \in 1..8 |-> IF i \in Views THEN NoUpdate ELSE Val(ErrorMessage(e))],
     calls |-> called, raised |-> FALSE]

\* run_aggregation with a slip: the figures are returned although the
\* follow-up table raised
run_aggregation_partial(d, filename) ==
    LET g == atualizar_graficos(d)
        f == criar_tabela_followup(g.df)
        both == <<"atualizar_graficos", "criar_tabela_followup">>
    IN  IF ~g.ok THEN Failure(g.exc, <<"atualizar_graficos">>)
        ELSE [out |-> <<Val(g.figs.fig_status),
                        Val(g.figs.fig_dept),
                        Val(g.figs.fig_timeline),
                        Val(g.figs.fig_tags),
                        Val(g.figs.fig_atendentes),
                        Val(g.figs.kpi_fig),
                        IF f.ok THEN Val([table |-> f.table, updated |-> f.updated])
                        ELSE NoUpdate,
                        IF f.ok THEN Val(SuccessMessage(filename))
                        ELSE Val(ErrorMessage(f.exc))>>,
              calls |-> both, raised |-> FALSE]

\* lines 383-399: the aggregation of a parsed table, inside the try block
run_aggregation(d, filename) ==
    LET g == atualizar_graficos(d)
        f == criar_tabela_followup(g.df)
        both == <<"atualizar_graficos", "criar_tabela_followup">>
    IN  IF ~g.ok THEN Failure(g.exc, <<"atualizar_graficos">>)
        ELSE IF ~f.ok THEN Failure(f.exc, both)
        ELSE [out |-> <<Val(g.figs.fig_status),
                        Val(g.figs.fig_dept),
                        Val(g.figs.fig_timeline),
                        Val(g.figs.fig_tags),
                        Val(g.figs.fig_atendentes),
                        Val(g.figs.kpi_fig),
                        Val([table |-> f.table, updated |-> f.updated]),
                        Val(SuccessMessage(filename))>>,
              calls |-> both, raised |-> FALSE]

\* the returned list, the aggregation operations the run called, and
\* whether an exception left the callback
update_dashboard(contents, filename) ==
    IF contents = None
    THEN [out |-> [i \in 1..8 |-> NoUpdate], calls |-> <<>>, raised |-> FALSE]
    ELSE LET p == parse_contents(contents)
         IN  IF p.error_message # NoMessage
             THEN [out |-> [i \in 1..8 |->
                              IF i \in Views THEN NoUpdate ELSE Val(p.error_message)],
                   calls |-> <<>>, raised |-> FALSE]
             ELSE run_aggregation(p.df, filename)

\* Dash sets each Output to the value returned for it, unless that value is
\* no_update; a callback that raises sets none
ApplyOutputs(old, r) ==
    IF r.raised THEN old
    ELSE [i \in 1..8 |-> IF r.out[i] = NoUpdate THEN old[i] ELSE r.out[i]]

IsSuccess(out) ==
    /\ out[MessageOut] # NoUpdate
    /\ Len(out[MessageOut].val) = 3

----------------------------------------------------------------------------
(* Uploaded payloads *)

Seqs(S, n) == UNION {[1..k -> S] : k \in 0..n}

BaseRow ==
    [NUMERO |-> "11", NOME |-> "ana", STATUS |-> "Open",
     DEPARTAMENTO |-> "Sales", TAGS |-> <<"a", ",", " ", "b">>,
     ATENDENTE |-> "bob", DATA |-> DateText(0, 9),
     DATAFINALIZACAO |-> DateText(0, 17),
     DATAULTIMAMENSAGEM |-> DateText(1, 9)]

OtherRow ==
    [NUMERO |-> "22", NOME |-> "bia", STATUS |-> "Closed",
     DEPARTAMENTO |-> "Support", TAGS |-> <<"b">>,
     ATENDENTE |-> "eva", DATA |-> DateText(1, 9),
     DATAFINALIZACAO |-> EmptyText,
     DATAULTIMAMENSAGEM |-> DateText(0, 17)]

\* rows of the uploaded files: two sound ones, one with a malformed
\* opened_at, one without a last message
UploadRows ==
    {BaseRow, OtherRow,
     [BaseRow EXCEPT !.DATA = BadText],
     [OtherRow EXCEPT !.DATAULTIMAMENSAGEM = EmptyText]}

\* rows with a malformed closed_at, resp. last_message_at
DefectRows ==
    {[OtherRow EXCEPT !.DATAFINALIZACAO = BadText],
     [BaseRow EXCEPT !.DATAULTIMAMENSAGEM = BadText]}

Restrict(r, h) == [c \in h |-> r[c]]

Csv(h, rows) ==
    [header |-> h, rows |-> [i \in 1..Len(rows) |-> Restrict(rows[i], h)]]

Headers ==
    {AllCols, AllCols \ {"DATA"}, AllCols \ {"STATUS"}, AllCols \ {"NUMERO"}, {}}

Payload(csv) == [parts |-> 2, b64 |-> TRUE, utf8 |-> TRUE, csv |-> csv]

Payloads ==
    {None,
     [parts |-> 1, b64 |-> TRUE, utf8 |-> TRUE, csv |-> Csv({}, <<>>)],
     [parts |-> 2, b64 |-> FALSE, utf8 |-> TRUE, csv |-> Csv({}, <<>>)],
     [parts |-> 2, b64 |-> TRUE, utf8 |-> FALSE, csv |-> Csv({}, <<>>)]}
    \cup {Payload(Csv(AllCols, t)) : t \in Seqs(UploadRows, MaxUploadRows)}
    \cup {Payload(Csv(AllCols, <<r>>)) : r \in DefectRows}
    \cup {Payload(Csv(h, t)) : h \in Headers, t \in {<<>>, <<BaseRow>>}}

Filenames == {"jan.csv", "fev.csv"}

\* what is wrong with a payload, read off the payload itself
Decodable(c) == c # None /\ c.parts = 2 /\ c.b64 /\ c.utf8

Classify(c) ==
    [none |-> c = None,
     undecodable |-> c # None /\ ~Decodable(c),
     missing_column |-> Decodable(c) /\ c.csv.header # AllCols,
     bad_timestamp |->
        /\ Decodable(c)
        /\ \E i \in 1..Len(c.csv.rows) :
              \E k \in DateCols \cap c.csv.header : c.csv.rows[i][k] = BadText,
     empty_table |->
        Decodable(c) /\ c.csv.header = AllCols /\ c.csv.rows = <<>>,
     parsed |-> c # None /\ parse_contents(c).error_message = NoMessage]

----------------------------------------------------------------------------
(* The callback as a state machine *)

NotRun == [notrun |-> TRUE]

DashInit ==
    /\ outputs = [i \in 1..8 |-> Unset]
    /\ ret = update_dashboard(None, "")
    /\ calls = <<>>
    /\ upload = Classify(None)
    /\ lastGood = [i \in Views |-> Unset]

AggIdle ==
    /\ df = NoDf
    /\ df0 = NoDf
    /\ graphs = NotRun
    /\ followup = NotRun

Init == DashInit /\ AggIdle

Upload(contents, filename) ==
    \E r \in {update_dashboard(contents, filename)} :
        /\ ret' = r
        /\ calls' = r.calls
        /\ outputs' = ApplyOutputs(outputs, r)
        /\ upload' = Classify(contents)
        /\ lastGood' = IF ~r.raised /\ IsSuccess(r.out)
                       THEN [i \in Views |-> r.out[i]]
                       ELSE lastGood
        /\ UNCHANGED aggVars

Next == \E contents \in Payloads, filename \in Filenames : Upload(contents, filename)

Spec == Init /\ [][Next]_vars

----------------------------------------------------------------------------
(* The aggregation operations run on a parsed table *)

Ran(x) == x # NotRun

\* what a call returned, without the DataFrame it worked on
Result(r) == [k \in DOMAIN r \ {"df"} |-> r[k]]

\* the parsed tables of the files with all columns and the given rows
Parsed(tables) == {read_csv(Csv(AllCols, t)).df : t \in tables}

AggInit(tables) ==
    /\ DashInit
    /\ df \in Parsed(tables)
    /\ df0 = df
    /\ graphs = NotRun
    /\ followup = NotRun

RunGraficos ==
    /\ graphs = NotRun
    /\ \E g \in {atualizar_graficos(df)} :
          /\ graphs' = Result(g)
          /\ df' = g.df
    /\ UNCHANGED <<df0, followup, dashVars>>

RunFollowup ==
    /\ followup = NotRun
    /\ \E f \in {criar_tabela_followup(df)} :
          /\ followup' = Result(f)
          /\ df' = f.df
    /\ UNCHANGED <<df0, graphs, dashVars>>

AggNext == RunGraficos \/ RunFollowup

\* tables whose rows differ in status and department
CountRows ==
    {[BaseRow EXCEPT !.STATUS = st, !.DEPARTAMENTO = dp] :
        st \in {"Open", "Closed", ""}, dp \in {"Sales", ""}}

SpecCounts == AggInit(Seqs(CountRows, MaxRows)) /\ [][AggNext]_vars

\* tables whose rows differ in the date of opening
DateCells ==
    {EmptyText, BadText} \cup {DateText(d, h) : d \in 0..MaxDay, h \in {9, 17}}

DateRows == {[BaseRow EXCEPT !.DATA = c] : c \in DateCells}

SpecDates == AggInit(Seqs(DateRows, MaxRows)) /\ [][AggNext]_vars

\* tables whose rows differ in customer and last message
FollowRows ==
    {[BaseRow EXCEPT !.NUMERO = n, !.DATAULTIMAMENSAGEM = c] :
        n \in {"11", "22"},
        c \in {EmptyText, DateText(0, 17), DateText(MaxDay, 9)}}
    \cup {[BaseRow EXCEPT !.NOME = ""]}

SpecFollowup == AggInit(Seqs(FollowRows, MaxRows)) /\ [][AggNext]_vars

\* tables whose rows differ in tags, or in agent
Vip == <<"v", "i", "p">>
Urgent == <<"u", "r", "g", "e", "n", "t">>

TagCells ==
    {<<>>, Vip \o <<",", " ">> \o Urgent, Urgent, Vip \o <<",">>,
     <<" ">>, Urgent \o <<" ", ",">> \o Vip, <<" ">> \o Vip}

TagRows == {[BaseRow EXCEPT !.TAGS = c] : c \in TagCells}

AgentRows == {[BaseRow EXCEPT !.ATENDENTE = a] : a \in {"bob", "eva", ""}}

\* wide tables: n labels, each on one row, then the labels of D once more
Letters == <<"a", "b", "c", "d">>
WideTag(i) == <<Letters[((i - 1) \div 4) + 1], Letters[((i - 1) % 4) + 1]>>
WideRow(i) == [BaseRow EXCEPT !.TAGS = WideTag(i), !.ATENDENTE = ToString(i)]

WideTable(n, D) ==
    LET again == SortedInts(D)
    IN  [i \in 1..n |-> WideRow(i)] \o [i \in 1..Len(again) |-> WideRow(again[i])]

WideTables == {WideTable(n, D) : n \in {MaxLabels - 1, MaxLabels}, D \in SUBSET (1..MaxLabels - 1)}

SpecTags ==
    /\ AggInit(Seqs(TagRows, MaxRows) \cup Seqs(AgentRows, MaxRows) \cup WideTables)
    /\ [][AggNext]_vars

----------------------------------------------------------------------------
(* Properties of the upload callback *)

IsErrorMessage(v) == v # NoUpdate /\ v # Unset /\ Len(v.val) = 2

\* C1: an upload whose processing fails leaves the seven views as they
\* were and sets only the message; the views shown are always those the
\* most recent successful upload returned (unset before the first one).
C1_FailedUploadKeepsViews ==
    [][/\ ~IsSuccess(ret'.out) =>
            /\ \A i \in Views : outputs'[i] = outputs[i]
            /\ ~upload'.none => outputs'[MessageOut] = ret'.out[MessageOut]
                                /\ IsErrorMessage(outputs'[MessageOut])
       /\ \A i \in Views : outputs'[i] = lastGood'[i]]_vars

\* a failed upload (the aggregation raised) after a successful one
C1_Witness ==
    /\ ~IsSuccess(ret.out)
    /\ calls # <<>>
    /\ IsErrorMessage(outputs[MessageOut])
    /\ \A i \in Views : outputs[i] # Unset /\ outputs[i] = lastGood[i]

\* C2: an undecodable payload, a missing required column or a malformed
\* timestamp makes parse_contents return no table, no aggregation
\* operation is invoked and the message is the parse failure.
C2_IngestionRejectsMalformed ==
    (upload.undecodable \/ upload.missing_column \/ upload.bad_timestamp) =>
        /\ ~upload.parsed
        /\ calls = <<>>
        /\ IsErrorMessage(ret.out[MessageOut])

\* C7: the upload of an empty table (valid header, no rows) is reported as
\* a success, with all views empty and a total of 0.
C7_EmptyTableSucceeds ==
    upload.empty_table =>
        /\ ~ret.raised
        /\ IsSuccess(ret.out)
        /\ \A i \in 1..5 : ret.out[i] = Val(<<>>)
        /\ ret.out[6] = Val(0)
        /\ ret.out[7] # NoUpdate /\ ret.out[7].val.table = <<>>

\* C10: no exception leaves the callback, and what it returns either
\* replaces all seven views, with the success message, or none of them;
\* the views shown are never a mix of two uploads.
C10_AllOrNothing ==
    /\ ~ret.raised
    /\ \/ \A i \in Views : ret.out[i] = NoUpdate
       \/ /\ \A i \in Views : ret.out[i] # NoUpdate /\ outputs[i] = ret.out[i]
          /\ IsSuccess(ret.out)
    /\ \/ \A i \in Views : outputs[i] = Unset
       \/ \A i \in Views : outputs[i] # Unset /\ outputs[i] = lastGood[i]

\* the follow-up table raised after the figures were built: nothing of
\* that upload is shown
C10_Witness ==
    /\ calls = <<"atualizar_graficos", "criar_tabela_followup">>
    /\ ~IsSuccess(ret.out)
    /\ \A i \in Views : ret.out[i] = NoUpdate /\ outputs[i] # Unset

----------------------------------------------------------------------------
(* Properties of the aggregation operations *)

RECURSIVE SumCounts(_)
SumCounts(ps) ==
    IF ps = <<>> THEN 0 ELSE ps[Len(ps)][2] + SumCounts(SubSeq(ps, 1, Len(ps) - 1))

Built(r) == Ran(r) /\ r.ok

\* C3: the status counts and the department counts each sum to the total
\* indicator, which is the number of rows of the table.
C3_CountsSumToTotal ==
    Built(graphs) =>
        /\ graphs.figs.kpi_fig = Len(df0.rows)
        /\ SumCounts(graphs.figs.fig_status) = graphs.figs.kpi_fig
        /\ SumCounts(graphs.figs.fig_dept) = graphs.figs.kpi_fig

\* C4: neither aggregation operation changes the table it is given: no
\* value of a column differs after the call and no column is added.
C4_InputUnchanged ==
    (Ran(graphs) \/ Ran(followup)) => df = df0

\* the labels a ranking is built from, and the ranking's conditions
Labels(items) == {items[i] : i \in 1..Len(items)}
Shown(view) == {view[i][1] : i \in 1..Len(view)}

TopOk(view, items) ==
    /\ Len(view) <= TopN
    /\ \A i \in 1..Len(view) : view[i][2] = Count(items, view[i][1])
    /\ \A i \in 1..(Len(view) - 1) : view[i][2] >= view[i + 1][2]
    /\ \A x \in Labels(items) \ Shown(view) :
          \A i \in 1..Len(view) : Count(items, x) <= view[i][2]
    /\ Labels(items) # Shown(view) => Len(view) = TopN

TagItems == Fragments(dropna(Column(df0, "TAGS"), NaNTags))
AgentItems == dropna(Column(df0, "ATENDENTE"), NaN)

\* C5: the tags ranking and the agents ranking hold at most 10 entries, in
\* descending order of count, and no label left out has a larger count
\* than an entry shown.
C5_TopTenDescending ==
    Built(graphs) =>
        /\ TopOk(graphs.figs.fig_tags, TagItems)
        /\ TopOk(graphs.figs.fig_atendentes, AgentItems)

\* more than ten labels, of different counts: some are cut off
C5_Witness ==
    /\ Built(graphs)
    /\ Cardinality(Labels(AgentItems)) > TopN
    /\ Cardinality(Labels(TagItems)) > TopN
    /\ Len(graphs.figs.fig_tags) = TopN
    /\ Len(graphs.figs.fig_atendentes) = TopN
    /\ graphs.figs.fig_tags[1][2] > graphs.figs.fig_tags[TopN][2]
    /\ graphs.figs.fig_tags[1][1] # TagItems[1]

\* C6: the follow-up table has exactly one row for each (NUMERO, NOME,
\* STATUS) triple of the table, and DIAS_SEM_CONTATO is >= 0 in each.
C6_OneRowPerTriple ==
    Ran(followup) =>
        /\ followup.ok
        /\ \A i \in 1..Len(df0.rows) :
              Cardinality({g \in 1..Len(followup.table) :
                  /\ followup.table[g].NUMERO = df0.rows[i]["NUMERO"]
                  /\ followup.table[g].NOME = df0.rows[i]["NOME"]
                  /\ followup.table[g].STATUS = df0.rows[i]["STATUS"]}) = 1
        /\ \A g \in 1..Len(followup.table) :
              \E i \in 1..Len(df0.rows) :
                  /\ followup.table[g].NUMERO = df0.rows[i]["NUMERO"]
                  /\ followup.table[g].NOME = df0.rows[i]["NOME"]
                  /\ followup.table[g].STATUS = df0.rows[i]["STATUS"]
        /\ \A g \in 1..Len(followup.table) :
              /\ followup.table[g].DIAS_SEM_CONTATO # NaNObj
              /\ followup.table[g].DIAS_SEM_CONTATO.v >= 0

\* C8: the tags ranking counts the trimmed, comma-separated fragments of
\* the tags fields that are present; "vip, urgent", "urgent" and a missing
\* field give urgent 2, vip 1; no entry has an empty label.
C8_TagsSplitTrimmed ==
    Built(graphs) =>
        /\ \A i \in 1..Len(graphs.figs.fig_tags) :
              /\ graphs.figs.fig_tags[i][1] # <<>>
              /\ graphs.figs.fig_tags[i][2] =
                     Count(TagItems, graphs.figs.fig_tags[i][1])
        /\ Column(df0, "TAGS") = <<Vip \o <<",", " ">> \o Urgent, Urgent, NaNTags>>
              => graphs.figs.fig_tags = <<<<Urgent, 2>>, <<Vip, 1>>>>

\* the rows that have a date of opening, and those opened on day d
Dated == {i \in 1..Len(df0.rows) : IsTs(df0.rows[i]["DATA"])}
OpenedOn(d) ==
    {i \in Dated : /\ d * HoursPerDay <= df0.rows[i]["DATA"].ts
                   /\ df0.rows[i]["DATA"].ts < (d + 1) * HoursPerDay}

\* C9: the daily volume has one entry for each calendar date on which a
\* row was opened, dates strictly increasing, and its counts sum to the
\* number of rows that have a date of opening.
C9_DailyVolume ==
    Built(graphs) =>
        LET view == graphs.figs.fig_timeline
        IN  /\ \A k \in 1..(Len(view) - 1) : view[k][1] < view[k + 1][1]
            /\ \A k \in 1..Len(view) :
                  view[k][2] = Cardinality(OpenedOn(view[k][1])) /\ view[k][2] > 0
            /\ \A i \in Dated : \E k \in 1..Len(view) : i \in OpenedOn(view[k][1])
            /\ SumCounts(view) = Cardinality(Dated)

\* two days, the later one first in the table, two tickets at different
\* hours of one day
C9_Witness ==
    /\ Built(graphs)
    /\ Len(graphs.figs.fig_timeline) = 2
    /\ graphs.figs.fig_timeline[1][2] = 2
    /\ Len(df0.rows) = 3
    /\ df0.rows[1]["DATA"].ts > df0.rows[2]["DATA"].ts
    /\ df0.rows[2]["DATA"].ts # df0.rows[3]["DATA"].ts

=============================================================================
